---------------------------- MODULE Spec2Model ----------------------------
(***************************************************************************)
(* bevy_cursor: the CursorLocation resource and the system that updates it *)
(* (src/src/lib.rs), in the `2d` build.                                    *)
(*                                                                         *)
(* An Option<T> is a sequence of length at most one: None is <<>> and      *)
(* Some(x) is <<x>>.  A Vec2/UVec2 is a pair <<x, y>>.                     *)
(***************************************************************************)
EXTENDS Integers, Sequences, FiniteSets

(***************************************************************************)
(* Bounds of the model.                                                    *)
(***************************************************************************)
\* Frames (runs of the Main schedule) explored.
MaxFrames == 3
\* Logical cursor coordinates and viewport corners range over 0..MaxCoord.
MaxCoord == 1
\* Camera::order ranges over 0..MaxOrder.
MaxOrder == 1
\* The scale of a camera's GlobalTransform ranges over 0..MaxScale; scale 0
\* is the degenerate (non-invertible) transform.
MaxScale == 1

\* The window and camera entities of the world.
WindowIds == {"w1", "w2"}
CameraIds == {"c1", "c2"}

None == <<>>
Some(x) == <<x>>

Coords == 0..MaxCoord
\* Logical cursor positions (Window::cursor_position): the points of the two
\* diagonals of the window.
Positions == {p \in Coords \X Coords : p[1] = p[2] \/ p[1] + p[2] = MaxCoord}
\* Camera::viewport values: a rectangle in physical pixels, its corner on the
\* main diagonal.
Viewports ==
    {[physical_position |-> <<v, v>>, physical_size |-> <<1, 1>>] : v \in Coords}
\* Camera::target values (RenderTarget).
PrimaryTarget == [kind |-> "Primary", window |-> "-"]
EntityTarget(w) == [kind |-> "Entity", window |-> w]
ImageTarget == [kind |-> "Image", window |-> "-"]
RenderTargets == {PrimaryTarget, ImageTarget} \cup {EntityTarget(w) : w \in WindowIds}

VARIABLES
    window_q,     \* Query<(Entity, &Window, Has<PrimaryWindow>)>, in iteration order
    camera_q,     \* Query<(Entity, &GlobalTransform, &Camera)>, in iteration order
    sort_swaps,   \* whether this build's sort_unstable reorders equal keys
    cursor,       \* CursorLocation.0 : Option<Location>
    changed,      \* the resource was marked changed by this frame's update step
    writes,       \* set_if_neq calls made by this frame's update step
    stage,        \* "Events" (between frames), "First", "Update" (the later schedules)
    updated,      \* update_cursor_location_res has run in this frame
    observed,     \* what the last consumer system run in the current schedule read
    frame,        \* number of the current frame
    redrawn       \* the current frame began with no change to windows or cameras

vars == <<window_q, camera_q, sort_swaps, cursor, changed, writes, stage,
          updated, observed, frame, redrawn>>

(***************************************************************************)
(* update_cursor_location_res                                              *)
(***************************************************************************)

\* A filter that lets every camera of the primary target through.
RendersTo_PrimaryAnywhere(camera, win_ref, is_primary) ==
    CASE camera.target.kind = "Primary" -> TRUE
      [] camera.target.kind = "Entity" -> camera.target.window = win_ref
      [] OTHER -> FALSE

\* The filter closure: does the camera render into this window?
RendersTo(camera, win_ref, is_primary) ==
    CASE camera.target.kind = "Primary" -> is_primary
      [] camera.target.kind = "Entity" -> camera.target.window = win_ref
      [] OTHER -> FALSE

\* camera_q.iter().filter(..).collect()
RECURSIVE CamerasOf(_, _)
CamerasOf(cams, window) ==
    IF cams = <<>> THEN <<>>
    ELSE LET rest == CamerasOf(Tail(cams), window)
         IN IF RendersTo(Head(cams), window.entity, window.is_primary)
            THEN <<Head(cams)>> \o rest
            ELSE rest

\* Insert one camera into a sequence sorted by ascending order.  Equal keys
\* keep their relative position unless the sort reorders them.
RECURSIVE Insert(_, _, _)
Insert(cam, sorted, swaps) ==
    IF sorted = <<>> THEN <<cam>>
    ELSE IF \/ cam.order < Head(sorted).order
            \/ (swaps /\ cam.order = Head(sorted).order)
         THEN <<cam>> \o sorted
         ELSE <<Head(sorted)>> \o Insert(cam, Tail(sorted), swaps)

\* The cameras left in query order.
SortByOrder_Unsorted(cams, swaps) == cams

\* A sort whose handling of equal keys varies from one call to the next.
RECURSIVE SortByOrder_TiesVary(_, _)
SortByOrder_TiesVary(cams, swaps) ==
    IF cams = <<>> THEN <<>>
    ELSE Insert(cams[Len(cams)],
                SortByOrder_TiesVary(SubSeq(cams, 1, Len(cams) - 1), swaps),
                frame % 2 = 0)

\* cameras.sort_unstable_by_key(|..| camera.order)
RECURSIVE SortByOrder(_, _)
SortByOrder(cams, swaps) ==
    IF cams = <<>> THEN <<>>
    ELSE Insert(cams[Len(cams)], SortByOrder(SubSeq(cams, 1, Len(cams) - 1), swaps), swaps)

\* cameras.into_iter().rev()
Rev(s) == [i \in 1..Len(s) |-> s[Len(s) + 1 - i]]

\* A containment test that every camera passes.
ContainCursor_Always(camera, physical_cursor_position) == TRUE

\* A containment test that leaves the far edges of the viewport out.
ContainCursor_HalfOpen(camera, physical_cursor_position) ==
    IF camera.viewport = None THEN TRUE
    ELSE LET viewport == camera.viewport[1]
             x == physical_cursor_position[1]
             y == physical_cursor_position[2]
             vx == viewport.physical_position[1]
             vy == viewport.physical_position[2]
             vw == viewport.physical_size[1]
             vh == viewport.physical_size[2]
         IN x >= vx /\ x < (vx + vw) /\ y >= vy /\ y < (vy + vh)

\* Does the camera viewport contain the cursor ?
ContainCursor(camera, physical_cursor_position) ==
    IF camera.viewport = None THEN TRUE
    ELSE LET viewport == camera.viewport[1]
             x == physical_cursor_position[1]
             y == physical_cursor_position[2]
             vx == viewport.physical_position[1]
             vy == viewport.physical_position[2]
             vw == viewport.physical_size[1]
             vh == viewport.physical_size[2]
         IN x >= vx /\ x <= (vx + vw) /\ y >= vy /\ y <= (vy + vh)

\* camera.viewport_to_world_2d(cam_t, cursor_position): Err (None here) when
\* the transform cannot be inverted, else the position in world coordinates.
ViewportToWorld2d(camera, cursor_position) ==
    IF camera.scale = 0 THEN None
    ELSE Some(<<cursor_position[1] * camera.scale, cursor_position[2] * camera.scale>>)

\* The inner loop with the viewport tested against the logical position.
RECURSIVE ScanCameras_Logical(_, _)
ScanCameras_Logical(cameras, window) ==
    IF cameras = <<>> THEN None
    ELSE LET camera == Head(cameras)
             world == ViewportToWorld2d(camera, window.cursor_position[1])
         IN IF ~ContainCursor(camera, window.cursor_position[1])
            THEN ScanCameras_Logical(Tail(cameras), window)
            ELSE IF world = None
            THEN ScanCameras_Logical(Tail(cameras), window)
            ELSE Some([position |-> window.cursor_position[1],
                       window |-> window.entity,
                       camera |-> camera.entity,
                       world_position |-> world[1]])

\* The inner loop leaving the window at the first failed projection.
RECURSIVE ScanCameras_AbortOnError(_, _)
ScanCameras_AbortOnError(cameras, window) ==
    IF cameras = <<>> THEN None
    ELSE LET camera == Head(cameras)
             world == ViewportToWorld2d(camera, window.cursor_position[1])
         IN IF ~ContainCursor(camera, window.physical_cursor_position[1])
            THEN ScanCameras_AbortOnError(Tail(cameras), window)
            ELSE IF world = None
            THEN None
            ELSE Some([position |-> window.cursor_position[1],
                       window |-> window.entity,
                       camera |-> camera.entity,
                       world_position |-> world[1]])

\* The inner loop publishing the physical position of the cursor.
RECURSIVE ScanCameras_PhysicalPosition(_, _)
ScanCameras_PhysicalPosition(cameras, window) ==
    IF cameras = <<>> THEN None
    ELSE LET camera == Head(cameras)
             world == ViewportToWorld2d(camera, window.cursor_position[1])
         IN IF ~ContainCursor(camera, window.physical_cursor_position[1])
            THEN ScanCameras_PhysicalPosition(Tail(cameras), window)
            ELSE IF world = None
            THEN ScanCameras_PhysicalPosition(Tail(cameras), window)
            ELSE Some([position |-> window.physical_cursor_position[1],
                       window |-> window.entity,
                       camera |-> camera.entity,
                       world_position |-> world[1]])

\* The inner loop over the cameras of one window, topmost first: the
\* Location of the first camera that contains the cursor and projects it,
\* or None when the loop runs to its end.
RECURSIVE ScanCameras(_, _)
ScanCameras(cameras, window) ==
    IF cameras = <<>> THEN None
    ELSE LET camera == Head(cameras)
             world == ViewportToWorld2d(camera, window.cursor_position[1])
         IN IF ~ContainCursor(camera, window.physical_cursor_position[1])
            THEN ScanCameras(Tail(cameras), window)
            ELSE IF world = None
            THEN ScanCameras(Tail(cameras), window)
            ELSE Some([position |-> window.cursor_position[1],
                       window |-> window.entity,
                       camera |-> camera.entity,
                       world_position |-> world[1]])

RECURSIVE ScanWindows(_, _, _)

\* The found camera written without the `return`: the scan goes on.
FoundWrites_NoReturn(location, windows, cams, swaps) ==
    <<location>> \o ScanWindows(windows, cams, swaps)

\* What happens once a camera is found: one write, then `return`.
FoundWrites(location, windows, cams, swaps) == <<location>>

\* The end of the scan with the resource left as it was.
NotFoundWrites_Nothing == <<>>

\* The cursor is outside of every windows: one write of None.
NotFoundWrites == <<None>>

\* The outer loop stopping at the first window without a cursor.
RECURSIVE ScanWindows_StopAtFirst(_, _, _)
ScanWindows_StopAtFirst(windows, cams, swaps) ==
    IF windows = <<>> THEN NotFoundWrites
    ELSE LET window == Head(windows)
         IN IF window.cursor_position = None
            THEN NotFoundWrites
            ELSE IF window.physical_cursor_position = None
            THEN NotFoundWrites
            ELSE LET found == ScanCameras(Rev(SortByOrder(CamerasOf(cams, window), swaps)),
                                          window)
                 IN IF found = None
                    THEN ScanWindows_StopAtFirst(Tail(windows), cams, swaps)
                    ELSE FoundWrites(found, Tail(windows), cams, swaps)

\* The outer loop over the windows.  The result is the sequence of values
\* the system passes to set_if_neq, in call order.
ScanWindows(windows, cams, swaps) ==
    IF windows = <<>> THEN NotFoundWrites
    ELSE LET window == Head(windows)
         IN IF window.cursor_position = None
            THEN ScanWindows(Tail(windows), cams, swaps)
            ELSE IF window.physical_cursor_position = None
            THEN ScanWindows(Tail(windows), cams, swaps)
            ELSE LET found == ScanCameras(Rev(SortByOrder(CamerasOf(cams, window), swaps)),
                                          window)
                 IN IF found = None
                    THEN ScanWindows(Tail(windows), cams, swaps)
                    ELSE FoundWrites(found, Tail(windows), cams, swaps)

\* A write through DerefMut: always marks the resource changed.
SetIfNeq_Set(res, value) == [value |-> value, changed |-> TRUE]

\* A write that compares only whether a location is held: a held location
\* is kept as long as the scan finds one.
SetIfNeq_KeepSome(res, value) ==
    IF (res.value = None) = (value = None) THEN res
    ELSE [value |-> value, changed |-> TRUE]

\* DetectChangesMut::set_if_neq on the mapped Mut<Option<Location>>.
SetIfNeq(res, value) ==
    IF res.value = value THEN res
    ELSE [value |-> value, changed |-> TRUE]

\* The calls to set_if_neq, applied in order.
RECURSIVE ApplyWrites(_, _)
ApplyWrites(res, ws) ==
    IF ws = <<>> THEN res
    ELSE ApplyWrites(SetIfNeq(res, Head(ws)), Tail(ws))

(***************************************************************************)
(* The world the system reads, and the frame loop around it.               *)
(***************************************************************************)

\* Window::physical_cursor_position for a logical position, on a window
\* whose scale factor is 2.
Physical(p) == <<2 * p[1], 2 * p[2]>>

Window(e, primary) ==
    [entity |-> e, cursor_position |-> None, physical_cursor_position |-> None,
     is_primary |-> primary]

\* Camera::default() renders to the primary window, full-window, order 0.
Camera(e, target) ==
    [entity |-> e, target |-> target, viewport |-> None, order |-> 0, scale |-> 1]

\* TrackCursorPlugin::build: init_resource::<CursorLocation>() (Default is
\* None), on a world with a primary and a secondary window and two cameras:
\* the default one, and one that renders to the primary or the secondary
\* window.
Init ==
    /\ window_q = <<Window("w1", TRUE), Window("w2", FALSE)>>
    /\ camera_q \in {<<Camera("c1", PrimaryTarget), Camera("c2", t)>> :
                        t \in {PrimaryTarget, EntityTarget("w2")}}
    /\ sort_swaps \in BOOLEAN
    /\ cursor = None
    /\ changed = FALSE
    /\ writes = 0
    /\ stage = "Events"
    /\ updated = FALSE
    /\ observed = None
    /\ frame = 0
    /\ redrawn = FALSE

\* The runner handles one event and then runs the Main schedule, which
\* starts with First.
StartFrame ==
    /\ stage = "Events"
    /\ frame < MaxFrames
    /\ stage' = "First"
    /\ frame' = frame + 1
    /\ updated' = FALSE
    /\ writes' = 0
    /\ observed' = None
    /\ changed' = FALSE
    /\ UNCHANGED <<sort_swaps, cursor>>

WindowIndex(w) == CHOOSE i \in 1..Len(window_q) : window_q[i].entity = w
CameraIndex(c) == CHOOSE i \in 1..Len(camera_q) : camera_q[i].entity = c

\* The cursor moves inside window w.
CursorMoved ==
    \E w \in WindowIds, p \in Positions :
        /\ StartFrame
        /\ window_q[WindowIndex(w)].cursor_position # Some(p)
        /\ window_q' = [window_q EXCEPT ![WindowIndex(w)].cursor_position = Some(p),
                                        ![WindowIndex(w)].physical_cursor_position =
                                            Some(Physical(p))]
        /\ UNCHANGED camera_q
        /\ redrawn' = FALSE

\* The cursor leaves window w.
CursorLeft ==
    \E w \in WindowIds :
        /\ StartFrame
        /\ window_q[WindowIndex(w)].cursor_position # None
        /\ window_q' = [window_q EXCEPT ![WindowIndex(w)].cursor_position = None,
                                        ![WindowIndex(w)].physical_cursor_position = None]
        /\ UNCHANGED camera_q
        /\ redrawn' = FALSE

\* The PrimaryWindow marker moves to window p, or is removed ("-").
SetPrimary ==
    \E p \in WindowIds \cup {"-"} :
        /\ StartFrame
        /\ \E i \in 1..Len(window_q) : window_q[i].is_primary # (window_q[i].entity = p)
        /\ window_q' = [i \in 1..Len(window_q) |->
                           [window_q[i] EXCEPT !.is_primary = (window_q[i].entity = p)]]
        /\ UNCHANGED camera_q
        /\ redrawn' = FALSE

SetTarget ==
    \E c \in CameraIds, t \in RenderTargets :
        /\ StartFrame
        /\ camera_q[CameraIndex(c)].target # t
        /\ camera_q' = [camera_q EXCEPT ![CameraIndex(c)].target = t]
        /\ UNCHANGED window_q
        /\ redrawn' = FALSE

SetViewport ==
    \E c \in CameraIds, v \in {None} \cup {Some(r) : r \in Viewports} :
        /\ StartFrame
        /\ camera_q[CameraIndex(c)].viewport # v
        /\ camera_q' = [camera_q EXCEPT ![CameraIndex(c)].viewport = v]
        /\ UNCHANGED window_q
        /\ redrawn' = FALSE

SetOrder ==
    \E c \in CameraIds, o \in 0..MaxOrder :
        /\ StartFrame
        /\ camera_q[CameraIndex(c)].order # o
        /\ camera_q' = [camera_q EXCEPT ![CameraIndex(c)].order = o]
        /\ UNCHANGED window_q
        /\ redrawn' = FALSE

SetTransform ==
    \E c \in CameraIds, s \in 0..MaxScale :
        /\ StartFrame
        /\ camera_q[CameraIndex(c)].scale # s
        /\ camera_q' = [camera_q EXCEPT ![CameraIndex(c)].scale = s]
        /\ UNCHANGED window_q
        /\ redrawn' = FALSE

\* A frame with no change to windows or cameras.
Redraw ==
    /\ StartFrame
    /\ UNCHANGED <<window_q, camera_q>>
    /\ redrawn' = TRUE

\* The system runs in First, in the set UpdateCursorLocation.
UpdateRuns == stage = "First" /\ ~updated

UpdateCursorLocation ==
    /\ UpdateRuns
    /\ LET ws == ScanWindows(window_q, camera_q, sort_swaps)
           res == ApplyWrites([value |-> cursor, changed |-> FALSE], ws)
       IN /\ cursor' = res.value
          /\ changed' = res.changed
          /\ writes' = Len(ws)
    /\ updated' = TRUE
    /\ UNCHANGED <<window_q, camera_q, sort_swaps, stage, observed, frame, redrawn>>

\* An ordering on a set that holds no system constrains nothing.
AfterUpdateCursorLocation_EmptySet == TRUE

\* A system ordered .after(UpdateCursorLocation) runs once the set is done.
AfterUpdateCursorLocation == updated

Read(by) ==
    /\ observed' = Some([by |-> by, value |-> cursor, changed |-> changed])
    /\ UNCHANGED <<window_q, camera_q, sort_swaps, cursor, changed, writes, stage,
                   updated, frame, redrawn>>

\* A consumer added to First with no ordering: before or after the update.
ConsumerInFirst ==
    /\ stage = "First"
    /\ Read("First")
\* A consumer added to First with .after(UpdateCursorLocation).
ConsumerAfterSet ==
    /\ stage = "First"
    /\ AfterUpdateCursorLocation
    /\ Read("First.after")
\* A consumer added to a later schedule of the frame (PreUpdate .. Last).
ConsumerInUpdate ==
    /\ stage = "Update"
    /\ Read("Update")

\* First is over when all its systems have run.
FirstDone ==
    /\ stage = "First"
    /\ updated
    /\ stage' = "Update"
    /\ observed' = None
    /\ UNCHANGED <<window_q, camera_q, sort_swaps, cursor, changed, writes, updated, frame,
                   redrawn>>

FrameDone ==
    /\ stage = "Update"
    /\ stage' = "Events"
    /\ observed' = None
    /\ UNCHANGED <<window_q, camera_q, sort_swaps, cursor, changed, writes, updated, frame,
                   redrawn>>

Next ==
    \/ CursorMoved
    \/ CursorLeft
    \/ SetPrimary
    \/ SetTarget
    \/ SetViewport
    \/ SetOrder
    \/ SetTransform
    \/ Redraw
    \/ UpdateCursorLocation
    \/ ConsumerInFirst
    \/ ConsumerAfterSet
    \/ ConsumerInUpdate
    \/ FirstDone
    \/ FrameDone

Spec == Init /\ [][Next]_vars

(***************************************************************************)
(* The split screen of examples/multiple_windows.rs: the secondary window  *)
(* is shared by a left and a right camera, each with half of it as its     *)
(* viewport.                                                               *)
(***************************************************************************)

\* window.resolution.physical_width() and physical_height() of a window that
\* is MaxCoord + 1 logical pixels wide and high, at scale factor 2.
PhysicalWidth == 2 * (MaxCoord + 1)
PhysicalHeight == 2 * (MaxCoord + 1)

\* set_camera_viewports: the viewport of the left camera.
LeftViewport ==
    [physical_position |-> <<0, 0>>,
     physical_size |-> <<PhysicalWidth \div 2, PhysicalHeight>>]

\* set_camera_viewports: the viewport of the right camera.
RightViewport ==
    [physical_position |-> <<PhysicalWidth \div 2, 0>>,
     physical_size |-> <<PhysicalWidth \div 2, PhysicalHeight>>]

\* The world of the example once the secondary window has been resized: the
\* left camera (order 0) and the right camera (order 1) render to the
\* secondary window.
SplitInit ==
    /\ window_q = <<Window("w1", TRUE), Window("w2", FALSE)>>
    /\ camera_q =
           <<[Camera("c1", EntityTarget("w2")) EXCEPT !.viewport = Some(LeftViewport)],
             [Camera("c2", EntityTarget("w2")) EXCEPT !.viewport = Some(RightViewport),
                                                      !.order = 1]>>
    /\ sort_swaps \in BOOLEAN
    /\ cursor = None
    /\ changed = FALSE
    /\ writes = 0
    /\ stage = "Events"
    /\ updated = FALSE
    /\ observed = None
    /\ frame = 0
    /\ redrawn = FALSE

SpecSplit == SplitInit /\ [][Next]_vars

(***************************************************************************)
(* CursorLocation's accessors.                                             *)
(***************************************************************************)
Get == cursor
GetPosition == IF Get = None THEN None ELSE Some(Get[1].position)
GetWindow == IF Get = None THEN None ELSE Some(Get[1].window)
\* camera() reading the window field.
GetCamera_Window == IF Get = None THEN None ELSE Some(Get[1].window)
GetCamera == IF Get = None THEN None ELSE Some(Get[1].camera)
GetWorldPosition == IF Get = None THEN None ELSE Some(Get[1].world_position)

(***************************************************************************)
(* Properties.  They are stated on the snapshot itself (window_q and       *)
(* camera_q), which does not change between the update step of a frame and *)
(* the start of the next frame, so `updated` marks the states that follow  *)
(* the update step of the current snapshot.                                *)
(***************************************************************************)
WindowSet == {window_q[i] : i \in 1..Len(window_q)}
CameraSet == {camera_q[i] : i \in 1..Len(camera_q)}
PublishedWindow == CHOOSE w \in WindowSet : w.entity = cursor[1].window
PublishedCamera == CHOOSE c \in CameraSet : c.entity = cursor[1].camera

HasPointer(w) == w.cursor_position # None /\ w.physical_cursor_position # None

\* The camera's render target resolves to the window.
TargetResolvesTo(c, w) ==
    \/ c.target.kind = "Primary" /\ w.is_primary
    \/ c.target.kind = "Entity" /\ c.target.window = w.entity

\* The window's physical pointer lies in the camera's viewport rectangle, or
\* the camera declares no viewport.
PointerInViewport(c, w) ==
    \/ c.viewport = None
    \/ /\ c.viewport[1].physical_position[1] <= w.physical_cursor_position[1][1]
       /\ w.physical_cursor_position[1][1] <=
              c.viewport[1].physical_position[1] + c.viewport[1].physical_size[1]
       /\ c.viewport[1].physical_position[2] <= w.physical_cursor_position[1][2]
       /\ w.physical_cursor_position[1][2] <=
              c.viewport[1].physical_position[2] + c.viewport[1].physical_size[2]

Projects(c) == c.scale # 0

\* c targets w, contains w's pointer and projects it.
Candidate(c, w) ==
    HasPointer(w) /\ TargetResolvesTo(c, w) /\ PointerInViewport(c, w) /\ Projects(c)

\* The step taken by update_cursor_location_res.
UpdateStep == UpdateRuns /\ updated'

\* C1: after an update step that published a location, the published camera
\* has the highest draw order among the cameras that target the published
\* window, contain its pointer and project it, wherever those cameras stand
\* in the camera list.
C1_TopmostCandidateSelected ==
    (updated /\ cursor # None) =>
        /\ Candidate(PublishedCamera, PublishedWindow)
        /\ \A c \in CameraSet :
               Candidate(c, PublishedWindow) => c.order <= PublishedCamera.order

\* Two cameras of different order on the pointer's window both contain the
\* pointer and project, and the higher one, which comes first in the camera
\* list, is published.
C1_Witness ==
    /\ updated
    /\ cursor # None
    /\ Candidate(camera_q[1], PublishedWindow)
    /\ Candidate(camera_q[2], PublishedWindow)
    /\ camera_q[1].viewport # None
    /\ camera_q[1].order > camera_q[2].order
    /\ cursor[1].camera = camera_q[1].entity

\* C2: after an update step, when a higher-order camera on a window that
\* holds the pointer has a viewport that does not contain it and a
\* lower-order camera on the same window contains it and projects, the
\* lower-order camera is the one published.
C2_ContainmentBeforeOrder ==
    updated =>
        \A w \in WindowSet : \A h \in CameraSet : \A l \in CameraSet :
            ( /\ HasPointer(w)
              /\ TargetResolvesTo(h, w) /\ TargetResolvesTo(l, w)
              /\ h.order > l.order
              /\ ~PointerInViewport(h, w)
              /\ PointerInViewport(l, w) /\ Projects(l) )
            => (cursor # None /\ cursor[1].camera = l.entity /\ cursor[1].window = w.entity)

\* The higher-order camera has a viewport away from the pointer and would
\* project; the full-window camera below it is published.
C2_Witness ==
    /\ updated
    /\ cursor # None
    /\ PublishedCamera.viewport = None
    /\ \E h \in CameraSet :
           /\ TargetResolvesTo(h, PublishedWindow)
           /\ h.order > PublishedCamera.order
           /\ Projects(h)
           /\ ~PointerInViewport(h, PublishedWindow)

\* C3: after an update step, a published location names a window that holds
\* the pointer and a camera whose render target resolves to that window
\* (primary target and primary window, or the window's own handle) and whose
\* viewport, if it declares one, contains the window's physical pointer.
C3_PublishedPairConsistent ==
    (updated /\ cursor # None) =>
        /\ \E w \in WindowSet : w.entity = cursor[1].window
        /\ \E c \in CameraSet : c.entity = cursor[1].camera
        /\ HasPointer(PublishedWindow)
        /\ \/ PublishedCamera.target = PrimaryTarget /\ PublishedWindow.is_primary
           \/ PublishedCamera.target = EntityTarget(PublishedWindow.entity)
        /\ PointerInViewport(PublishedCamera, PublishedWindow)

\* A location is published although a higher-order camera on the same
\* window projects and has a viewport around the pointer's logical position:
\* the pointer's physical position lies outside that viewport.
C3_Witness ==
    /\ updated
    /\ cursor # None
    /\ \E h \in CameraSet :
           /\ TargetResolvesTo(h, PublishedWindow)
           /\ h.order > PublishedCamera.order
           /\ Projects(h)
           /\ h.viewport # None
           /\ ~PointerInViewport(h, PublishedWindow)
           /\ h.viewport[1].physical_position[1] <= PublishedWindow.cursor_position[1][1]
           /\ PublishedWindow.cursor_position[1][1] <=
                  h.viewport[1].physical_position[1] + h.viewport[1].physical_size[1]
           /\ h.viewport[1].physical_position[2] <= PublishedWindow.cursor_position[1][2]
           /\ PublishedWindow.cursor_position[1][2] <=
                  h.viewport[1].physical_position[2] + h.viewport[1].physical_size[2]

\* C4: after an update step in a frame in which no window reports a pointer
\* position, the resource is empty and every accessor returns None.
C4_NoPointerNoLocation ==
    (updated /\ \A w \in WindowSet : w.cursor_position = None) =>
        /\ Get = None
        /\ GetPosition = None
        /\ GetWindow = None
        /\ GetCamera = None
        /\ GetWorldPosition = None

\* The update step emptied a resource that held a location: the pointer has
\* left every window.
C4_Witness ==
    /\ updated
    /\ changed
    /\ frame > 1
    /\ cursor = None
    /\ \A w \in WindowSet : w.cursor_position = None

\* C5: an update step marks the resource changed exactly when the value it
\* resolves differs from the value held before the step.
C5_ChangedOnlyWhenDifferent ==
    [][UpdateStep => (changed' <=> (cursor' # cursor))]_vars

\* An update step wrote the location already held and a consumer gated on
\* the change flag, run after it, saw no change.
C5_Witness ==
    /\ updated
    /\ frame > 1
    /\ cursor # None
    /\ ~changed
    /\ observed # None
    /\ observed[1].by = "Update"
    /\ ~observed[1].changed

\* C6 as stated: every consumer that has read the resource in a frame, in
\* whatever schedule it is placed, read the value resolved for that frame.
C6_EveryConsumerSeesResolved ==
    (updated /\ observed # None) => observed[1].value = cursor

\* C6: a consumer ordered after the set UpdateCursorLocation, or placed in a
\* later schedule of the frame, runs after the update step and reads the
\* value resolved for that frame.
C6_OrderedConsumerSeesResolved ==
    (observed # None /\ observed[1].by # "First") =>
        (updated /\ observed[1].value = cursor)

\* A consumer ordered after the set read a location the update step of its
\* frame had just changed.
C6_Witness ==
    /\ observed # None
    /\ observed[1].by = "First.after"
    /\ observed[1].changed
    /\ observed[1].value # None

\* C7: the update step calls set_if_neq exactly once, and no other step
\* changes the value of the resource.
C7_SingleWriter ==
    [][ /\ UpdateStep => writes' = 1
        /\ ~UpdateStep => cursor' = cursor ]_vars

\* The update step has published a new location with its single write, and
\* a consumer has read it.
C7_Witness ==
    /\ updated
    /\ writes = 1
    /\ changed
    /\ cursor # None
    /\ observed # None
    /\ observed[1].value = cursor

\* The value the system leaves in the resource for a window list.
Resolved(windows) ==
    LET ws == ScanWindows(windows, camera_q, sort_swaps) IN ws[Len(ws)]

Permutations(q) ==
    {[i \in 1..Len(q) |-> q[f[i]]] :
        f \in {g \in [1..Len(q) -> 1..Len(q)] :
                  \A i \in 1..Len(q) : \A j \in 1..Len(q) : g[i] = g[j] => i = j}}

\* C8 as stated: for every snapshot, every permutation of the window list
\* resolves to the same value, the one the update step published.
C8_WindowOrderIrrelevant ==
    updated => \A p \in Permutations(window_q) : Resolved(p) = cursor

\* C8: for every snapshot in which at most one window has a camera that
\* targets it, contains its pointer and projects it, every permutation of
\* the window list resolves to the same value, the one the update step
\* published.
C8_WindowOrderIrrelevantForOneWindow ==
    (/\ updated
     /\ \A w1 \in WindowSet : \A w2 \in WindowSet :
        ( /\ \E c \in CameraSet : Candidate(c, w1)
          /\ \E c \in CameraSet : Candidate(c, w2) ) => w1 = w2)
    => \A p \in Permutations(window_q) : Resolved(p) = cursor

\* Both windows report a pointer, only the second in the list has a camera
\* for it, and that window is published.
C8_Witness ==
    /\ updated
    /\ cursor # None
    /\ HasPointer(window_q[1])
    /\ HasPointer(window_q[2])
    /\ cursor[1].window = window_q[2].entity
    /\ ~\E c \in CameraSet : Candidate(c, window_q[1])

\* C9: after an update step the resource is empty exactly when no camera
\* anywhere targets a window that holds the pointer, contains the pointer
\* and projects it; otherwise a camera that projects is published, whatever
\* projections failed on the way.
C9_FailedProjectionSkipped ==
    updated =>
        IF \E w \in WindowSet : \E c \in CameraSet : Candidate(c, w)
        THEN cursor # None /\ Projects(PublishedCamera)
             /\ cursor[1].world_position =
                    <<cursor[1].position[1] * PublishedCamera.scale,
                      cursor[1].position[2] * PublishedCamera.scale>>
        ELSE cursor = None

\* The topmost camera containing the pointer fails to project and the
\* lower-order camera on the same window is published.
C9_Witness ==
    /\ updated
    /\ cursor # None
    /\ \E h \in CameraSet :
           /\ TargetResolvesTo(h, PublishedWindow)
           /\ PointerInViewport(h, PublishedWindow)
           /\ ~Projects(h)
           /\ h.order > PublishedCamera.order

\* C10: in the snapshot an update step has read, the cameras collected for
\* a window are those with the primary target when the window is flagged
\* primary and those that target the window's handle; a camera that targets
\* an image is collected for no window and is never published.
C10_Eligibility ==
    updated =>
        /\ \A w \in WindowSet :
               LET collected == CamerasOf(camera_q, w)
               IN \A c \in CameraSet :
                      (\E i \in 1..Len(collected) : collected[i] = c)
                      <=> ( \/ c.target = PrimaryTarget /\ w.is_primary
                            \/ c.target = EntityTarget(w.entity) )
        /\ cursor # None =>
               /\ PublishedCamera.target # ImageTarget
               /\ PublishedCamera.target = PrimaryTarget => PublishedWindow.is_primary
               /\ PublishedCamera.target.kind = "Entity" =>
                      PublishedCamera.target.window = PublishedWindow.entity

\* A full-window camera that projects and has the highest order targets an
\* image, and a lower camera is published for the pointer's window.
C10_Witness ==
    /\ updated
    /\ cursor # None
    /\ \E c \in CameraSet :
           /\ c.target = ImageTarget
           /\ c.viewport = None
           /\ Projects(c)
           /\ c.order > PublishedCamera.order

\* C11: after an update step on a snapshot in which exactly one window holds
\* the pointer and exactly one camera renders to that window, a camera with
\* no viewport and a projection that succeeds, the published location names
\* that window and that camera and its position is the window's logical
\* pointer position.
C11_SingleWindowSingleCamera ==
    updated =>
        \A w \in WindowSet : \A c \in CameraSet :
            ( /\ HasPointer(w)
              /\ \A v \in WindowSet : HasPointer(v) => v = w
              /\ TargetResolvesTo(c, w)
              /\ \A d \in CameraSet : TargetResolvesTo(d, w) => d = c
              /\ c.viewport = None
              /\ Projects(c) )
            => /\ cursor # None
               /\ cursor[1].window = w.entity
               /\ cursor[1].camera = c.entity
               /\ cursor[1].position = w.cursor_position[1]

\* The primary window alone holds the pointer, away from the origin so that
\* its logical and physical positions differ, its only camera is the default
\* one, and that pair is published with the logical position.
C11_Witness ==
    /\ updated
    /\ cursor # None
    /\ \A v \in WindowSet : HasPointer(v) => v = PublishedWindow
    /\ \A d \in CameraSet : TargetResolvesTo(d, PublishedWindow) => d = PublishedCamera
    /\ PublishedWindow.is_primary
    /\ PublishedCamera.target = PrimaryTarget
    /\ PublishedCamera.viewport = None
    /\ PublishedCamera.order = 0
    /\ PublishedWindow.cursor_position[1] # PublishedWindow.physical_cursor_position[1]
    /\ cursor[1].position = PublishedWindow.cursor_position[1]

\* C12: in every reachable state the accessors position(), window(),
\* camera() and world_position() are all None exactly when get() is None;
\* otherwise get() is one record with all four fields and each accessor
\* returns its own field of it, and after an update step those fields belong
\* together: the position is the pointer of the published window and the
\* world position is its projection by the published camera.
C12_NoPartialRecord ==
    /\ Get = None =>
           GetPosition = None /\ GetWindow = None /\ GetCamera = None
           /\ GetWorldPosition = None
    /\ Get # None =>
           /\ Len(Get) = 1
           /\ DOMAIN Get[1] = {"position", "window", "camera", "world_position"}
           /\ GetPosition = <<cursor[1].position>>
           /\ GetWindow = <<cursor[1].window>>
           /\ GetCamera = <<cursor[1].camera>>
           /\ GetWorldPosition = <<cursor[1].world_position>>
           /\ cursor[1].position \in Positions
           /\ cursor[1].window \in WindowIds
           /\ cursor[1].camera \in CameraIds
           /\ updated =>
                  /\ PublishedWindow.cursor_position = <<cursor[1].position>>
                  /\ cursor[1].world_position =
                         <<cursor[1].position[1] * PublishedCamera.scale,
                           cursor[1].position[2] * PublishedCamera.scale>>

\* A consumer has read the location the update step of its frame had just
\* written for the secondary window and its camera, which differ in every
\* field from a location on the primary window, and every accessor returns
\* a field of that location.
C12_Witness ==
    /\ updated
    /\ changed
    /\ observed # None
    /\ observed[1].value = Get
    /\ Get # None
    /\ ~PublishedWindow.is_primary
    /\ PublishedCamera.target = EntityTarget(PublishedWindow.entity)
    /\ GetWindow = <<PublishedWindow.entity>>
    /\ GetCamera = <<PublishedCamera.entity>>
    /\ GetPosition = PublishedWindow.cursor_position
    /\ GetWorldPosition # None

\* C13: the update step of a frame that began with windows and cameras
\* exactly as the previous frame's update step read them resolves the value
\* that step resolved: it leaves the resource equal to what the first run
\* left and does not mark it changed.
C13_Idempotent ==
    [][(UpdateStep /\ redrawn /\ frame > 1) => (cursor' = cursor /\ ~changed')]_vars

\* The update step has run a second time on a snapshot in which two cameras
\* of equal order both contain the pointer and project it, and the location
\* held is the one the first run published.
C13_Witness ==
    /\ updated
    /\ redrawn
    /\ frame > 1
    /\ cursor # None
    /\ ~changed
    /\ writes = 1
    /\ \E c \in CameraSet : \E d \in CameraSet :
           /\ c # d
           /\ c.order = d.order
           /\ Candidate(c, PublishedWindow)
           /\ Candidate(d, PublishedWindow)

\* C14: in the snapshot an update step has read, a camera with a viewport
\* at (vx, vy) of size (vw, vh) contains the physical pointer (x, y) of a
\* window exactly when vx <= x <= vx + vw and vy <= y <= vy + vh; and when
\* the pointer of a window lies on the seam x = vx + vw that the viewport of
\* one of its cameras shares with the viewport of another, both cameras
\* contain it and, both projecting, the one of higher draw order is
\* published.
C14_InclusiveBounds ==
    updated =>
        /\ \A w \in WindowSet : \A c \in CameraSet :
               (HasPointer(w) /\ c.viewport # None) =>
                   LET x == w.physical_cursor_position[1][1]
                       y == w.physical_cursor_position[1][2]
                       vx == c.viewport[1].physical_position[1]
                       vy == c.viewport[1].physical_position[2]
                       vw == c.viewport[1].physical_size[1]
                       vh == c.viewport[1].physical_size[2]
                   IN ContainCursor(c, w.physical_cursor_position[1])
                      <=> (vx <= x /\ x <= vx + vw /\ vy <= y /\ y <= vy + vh)
        /\ \A w \in WindowSet : \A a \in CameraSet : \A b \in CameraSet :
               ( /\ HasPointer(w)
                 /\ TargetResolvesTo(a, w) /\ TargetResolvesTo(b, w)
                 /\ a.viewport # None /\ b.viewport # None
                 /\ a.viewport[1].physical_position[1] + a.viewport[1].physical_size[1]
                        = b.viewport[1].physical_position[1]
                 /\ w.physical_cursor_position[1][1] = b.viewport[1].physical_position[1]
                 /\ a.viewport[1].physical_position[2] <= w.physical_cursor_position[1][2]
                 /\ b.viewport[1].physical_position[2] <= w.physical_cursor_position[1][2]
                 /\ w.physical_cursor_position[1][2] <=
                        a.viewport[1].physical_position[2] + a.viewport[1].physical_size[2]
                 /\ w.physical_cursor_position[1][2] <=
                        b.viewport[1].physical_position[2] + b.viewport[1].physical_size[2]
                 /\ Projects(a) /\ Projects(b)
                 /\ a.order # b.order )
               => /\ ContainCursor(a, w.physical_cursor_position[1])
                  /\ ContainCursor(b, w.physical_cursor_position[1])
                  /\ cursor # None
                  /\ cursor[1].window = w.entity
                  /\ cursor[1].camera = (IF a.order > b.order THEN a ELSE b).entity

\* The pointer of the secondary window lies on the seam between the left and
\* the right viewport, and the left camera, which has the higher order and
\* the seam as its far edge, is published.
C14_Witness ==
    /\ updated
    /\ cursor # None
    /\ PublishedCamera.viewport = Some(LeftViewport)
    /\ PublishedWindow.physical_cursor_position[1][1] =
           LeftViewport.physical_position[1] + LeftViewport.physical_size[1]
    /\ \E b \in CameraSet :
           /\ b.viewport = Some(RightViewport)
           /\ TargetResolvesTo(b, PublishedWindow)
           /\ Projects(b)
           /\ b.order < PublishedCamera.order
           /\ PublishedWindow.physical_cursor_position[1][1] =
                  RightViewport.physical_position[1]

\* C15: after every update step the value held is the one the scan resolves
\* from the snapshot of that frame, whatever was held before the step: a
\* location held names a camera that, in this snapshot, targets the named
\* window, contains its pointer and projects it, with the pointer's current
\* position, and nothing is held when the snapshot has no such camera.
C15_NoStaleLocation ==
    updated =>
        /\ cursor = Resolved(window_q)
        /\ cursor # None =>
               /\ Candidate(PublishedCamera, PublishedWindow)
               /\ PublishedWindow.cursor_position = <<cursor[1].position>>
        /\ cursor = None =>
               \A w \in WindowSet : \A c \in CameraSet : ~Candidate(c, w)

\* A consumer read, before the update step of its frame, the location left
\* by the previous frame; its camera is no longer one for the pointer, and
\* the update step has replaced the location by one with another camera.
C15_Witness ==
    /\ updated
    /\ changed
    /\ observed # None
    /\ observed[1].by = "First"
    /\ observed[1].value # None
    /\ cursor # None
    /\ cursor[1].camera # observed[1].value[1].camera
    /\ \E c \in CameraSet :
           /\ c.entity = observed[1].value[1].camera
           /\ \A w \in WindowSet : ~Candidate(c, w)

=============================================================================
